---- MODULE Spec2Model ----
(***************************************************************************)
(* Booking tools of the repository: the direct tools of agent.py           *)
(* (get_services, get_establishments_by_services, get_available_times,     *)
(* create_booking) and the gateway proxy lambda_handler of                 *)
(* gateway_lambda_proxy.py.  One invocation of a tool is a run from        *)
(* pc = "idle" to pc = "done"; every HTTP request the tool sends is        *)
(* appended to log, and the backend's answer is an input of the step that  *)
(* receives it.                                                            *)
(***************************************************************************)
EXTENDS Integers, Sequences, FiniteSets, TLC

VARIABLES
    pc,         \* "idle", "catalog", "establishments", "avail", "write", "done"
    impl,       \* "agent" (agent.py) or "lambda" (gateway_lambda_proxy.py)
    tool_name,  \* the tool being run
    params,     \* the arguments of the invocation
    log,        \* this invocation's requests and the answers to them, in order
    local,      \* the handler's local variables
    result,     \* what the invocation returned (or raised)
    tz_in,      \* timezone conversion alone: the iso_date given
    tz_out,     \* timezone conversion alone: date_param / date_str / time_str
    module_globals, \* the module-level variables, which outlive an invocation
    prev        \* an earlier run of a read tool, kept to compare a later one with

vars == <<pc, impl, tool_name, params, log, local, result, tz_in, tz_out,
          module_globals, prev>>

(***************************************************************************)
(* Strings.  A date or a time travels as a string, built the way strftime  *)
(* builds it.                                                              *)
(***************************************************************************)
Digit == <<"0", "1", "2", "3", "4", "5", "6", "7", "8", "9">>

D2(n) == Digit[((n \div 10) % 10) + 1] \o Digit[(n % 10) + 1]

D4(n) == D2(n \div 100) \o D2(n % 100)

\* strftime('%Y-%m-%d')
strftime_Ymd(dt) == D4(dt.y) \o "-" \o D2(dt.mo) \o "-" \o D2(dt.d)

\* strftime('%H:%M')
strftime_HM(dt) == D2(dt.h) \o ":" \o D2(dt.mi)

\* The caller's ISO string of a UTC instant, "2025-12-19T05:00:00.000Z",
\* or the bare civil date "2025-12-19" when the argument has no time part.
RawDate(date) ==
    IF date.kind = "iso"
    THEN strftime_Ymd(date) \o "T" \o strftime_HM(date) \o ":00.000Z"
    ELSE IF date.kind = "civil" THEN strftime_Ymd(date)
    ELSE "None"

(***************************************************************************)
(* Calendar arithmetic of datetime (proleptic Gregorian ordinals).         *)
(***************************************************************************)
IsLeap(y) == (y % 4 = 0) /\ ((y % 100 # 0) \/ (y % 400 = 0))

DaysInMonth(y, m) ==
    IF m = 2 THEN (IF IsLeap(y) THEN 29 ELSE 28)
    ELSE IF m \in {4, 6, 9, 11} THEN 30 ELSE 31

DaysBeforeYear(y) ==
    (y - 1) * 365 + ((y - 1) \div 4) - ((y - 1) \div 100) + ((y - 1) \div 400)

RECURSIVE DaysBeforeMonth(_, _)
DaysBeforeMonth(y, m) ==
    IF m = 1 THEN 0 ELSE DaysBeforeMonth(y, m - 1) + DaysInMonth(y, m - 1)

Ymd2Ord(y, m, d) == DaysBeforeYear(y) + DaysBeforeMonth(y, m) + d

\* Minutes since 0001-01-01T00:00 of a date-time record.
ToMinutes(dt) == (Ymd2Ord(dt.y, dt.mo, dt.d) - 1) * 1440 + dt.h * 60 + dt.mi

\* The date-time record of a number of minutes since 0001-01-01T00:00,
\* knowing that it lies in year yhint or in the year before.
FromMinutes(t, yhint) ==
    LET ord == (t \div 1440) + 1
        y   == IF ord > DaysBeforeYear(yhint) THEN yhint ELSE yhint - 1
        n   == ord - DaysBeforeYear(y)
        m   == CHOOSE k \in 1..12 :
                   /\ DaysBeforeMonth(y, k) < n
                   /\ n <= DaysBeforeMonth(y, k) + DaysInMonth(y, k)
    IN  [y |-> y, mo |-> m, d |-> n - DaysBeforeMonth(y, m),
         h |-> (t % 1440) \div 60, mi |-> t % 60]

\* datetime.fromisoformat accepts the string: a date and time, or a bare
\* date (which it reads as 00:00 without a zone), whose fields are in range.
fromisoformat_ok(date) ==
    /\ date.kind \in {"iso", "civil"}
    /\ date.mo \in 1..12
    /\ date.d \in 1..DaysInMonth(date.y, date.mo)
    /\ date.h \in 0..23
    /\ date.mi \in 0..59

(***************************************************************************)
(* pytz.timezone('America/Guayaquil'): the zone's rules from 1931 on.      *)
(* It is UTC-5, except that Ecuador observed daylight saving time (UTC-4)  *)
(* from 1992-11-28 00:00 local (05:00Z) to 1993-02-05 00:00 local (04:00Z).*)
(***************************************************************************)
DstStart == [y |-> 1992, mo |-> 11, d |-> 28, h |-> 5, mi |-> 0]

DstEnd == [y |-> 1993, mo |-> 2, d |-> 5, h |-> 4, mi |-> 0]

GuayaquilOffset(utc_dt) ==
    IF /\ ToMinutes(DstStart) <= ToMinutes(utc_dt)
       /\ ToMinutes(utc_dt) < ToMinutes(DstEnd)
    THEN 240 ELSE 300

\* utc_dt.astimezone(gmt5_tz)
astimezone(utc_dt) ==
    FromMinutes(ToMinutes(utc_dt) - GuayaquilOffset(utc_dt), utc_dt.y)

(***************************************************************************)
(* The backend's data and the inputs of the tools.                         *)
(***************************************************************************)
MaxSlots == 2   \* longest availability response considered

S1 == [_id |-> "S1", name |-> "Haircut", duration |-> 30, price |-> 10,
       type |-> "hair"]

S2 == [_id |-> "S2", name |-> "Color", duration |-> 45, price |-> 25,
       type |-> "hair"]

\* The body of GET /services.
Catalog == <<S1, S2>>

\* A body of GET /services whose entries have no price.
Unpriced(s) == [_id |-> s._id, name |-> s.name, duration |-> s.duration,
                type |-> s.type]

UnpricedCatalog == [i \in DOMAIN Catalog |-> Unpriced(Catalog[i])]

Range(f) == {f[i] : i \in DOMAIN f}

mkHour(st, et, emp) ==
    [startTime |-> st, endTime |-> et, time |-> st \o " - " \o et,
     duration |-> 30, employees |-> emp]

Hours ==
    {mkHour("10:30", "11:00", <<"emp1">>),
     mkHour("10:30", "11:00", <<"emp2">>),
     mkHour("20:00", "20:30", <<"emp1">>)}

SeqsUpTo(S, n) == UNION {[1..k -> S] : k \in 0..n}

\* The slot lists the availability endpoint may answer with.
SlotLists == SeqsUpTo(Hours, MaxSlots)

NoHour == mkHour("None", "None", <<>>)

NoEstablishment == [_id |-> "None", name |-> "None"]

\* The establishment the slots of an answer of POST /bookings/availableTime
\* name: the one asked for, another one, or none (NoEstablishment).
SlotEstablishments(establishment_id) ==
    {[_id |-> establishment_id, name |-> "Centro"],
     [_id |-> "E2", name |-> "Norte"],
     NoEstablishment}

\* A slot as POST /bookings/availableTime returns it to agent.py: its hour
\* and the establishment est, or its hour alone.
AgentSlot(h, est) ==
    IF est = NoEstablishment THEN [hour |-> h]
    ELSE [hour |-> h, establishment |-> est]

AgentSlots(hs, est) == [i \in DOMAIN hs |-> AgentSlot(hs[i], est)]

mkDate(k, y, mo, d, h, mi) ==
    [kind |-> k, y |-> y, mo |-> mo, d |-> d, h |-> h, mi |-> mi]

NoDate == mkDate("none", 1, 1, 1, 0, 0)

\* Dates a caller passes: UTC instants, a bare civil date, a malformed one.
IsoDates ==
    {mkDate("iso", 2025, 12, 19, 15, 30),
     mkDate("iso", 2025, 12, 19, 1, 0),
     mkDate("iso", 2026, 1, 1, 3, 0)}

CivilDates == {mkDate("civil", 2025, 12, 19, 0, 0)}

BadDates == {mkDate("iso", 2025, 2, 30, 15, 30)}

Times == {"10:30", "20:00", "11:00"}

ServiceIdLists == {<<"S1">>, <<"S1", "S2">>, <<"S1", "SX">>, <<"SX">>}

Durations == {30, 45, 75}

mkCustomer(n, l, e, p, c) ==
    [name |-> n, lastName |-> l, email |-> e, phoneNumber |-> p, phoneCode |-> c]

FullCustomer == mkCustomer("Ana", "Lopez", "ana@x.ec", "0991234567", "+593")

NoCustomer == mkCustomer("None", "None", "None", "None", "None")

\* Customer arguments: complete, email absent, name empty.
Customers ==
    {FullCustomer,
     mkCustomer("Ana", "Lopez", "None", "0991234567", "+593"),
     mkCustomer("", "Lopez", "ana@x.ec", "0991234567", "+593")}

\* How a request to the backend can end.
Statuses == {"ok", "http_error", "transport_error"}

mkParams(date, est, sids, svcs, time, dur, cust) ==
    [original_tool_name |-> "", date |-> date, establishment_id |-> est,
     establishment_name |-> "None", service_ids |-> sids, services |-> svcs, time |-> time,
     total_duration |-> dur, customer |-> cust]

NoParams == mkParams(NoDate, "None", <<>>, <<>>, "None", 0, NoCustomer)

mkLocal(svcs, ds, ts, dur) ==
    [services_selected |-> svcs, date_str |-> ds, time_str |-> ts, duration |-> dur]

NoLocal == mkLocal(<<>>, "None", "None", 0)

mkResult(k, m, b) == [kind |-> k, msg |-> m, body |-> b]

NoResult == mkResult("none", "", <<>>)

(***************************************************************************)
(* Events of an invocation: the requests it sends and the answers it gets. *)
(***************************************************************************)
mkRequest(method, path, date, est, dur, svcs, hour, cust) ==
    [ev |-> "request", method |-> method, path |-> path, date |-> date,
     establishment |-> est, duration |-> dur, services |-> svcs,
     hour |-> hour, customerInfo |-> cust, status |-> "", body |-> <<>>,
     base |-> ""]

mkResponse(path, status, body) ==
    [ev |-> "response", method |-> "", path |-> path, date |-> "",
     establishment |-> NoEstablishment, duration |-> 0, services |-> <<>>,
     hour |-> NoHour, customerInfo |-> NoCustomer, status |-> status,
     body |-> body, base |-> ""]

ServicesRequest ==
    mkRequest("GET", "/services", "", NoEstablishment, 0, <<>>, NoHour, NoCustomer)

RECURSIVE Join(_)
\* ','.join(ids)
Join(ids) ==
    IF Len(ids) = 0 THEN ""
    ELSE IF Len(ids) = 1 THEN ids[1]
    ELSE ids[1] \o "," \o Join(Tail(ids))

EstablishmentsRequest(service_ids_str) ==
    mkRequest("GET", "/establishments/establishments-by-services", "",
              NoEstablishment, 0, service_ids_str, NoHour, NoCustomer)

AvailableTimeRequest(method, date, establishment_id, duration, services) ==
    mkRequest(method, "/bookings/availableTime", date,
              [_id |-> establishment_id, name |-> "None"], duration, services,
              NoHour, NoCustomer)

BookingRequest(customer, duration, services, establishment, date, hour) ==
    mkRequest("POST", "/bookings/", date, establishment, duration, services,
              hour, customer)

\* str(e) of the exception a failed request raises.
ErrorText(status) ==
    IF status = "http_error" THEN "HTTPError" ELSE "ConnectionError"

(***************************************************************************)
(* agent.py: the direct tools.                                             *)
(***************************************************************************)
tzvars == <<tz_in, tz_out>>

\* What a step of a tool of agent.py or of lambda_handler leaves alone.
kept == <<tz_in, tz_out, module_globals, prev>>

\* API_BASE: a module-level variable of agent.py, a local of lambda_handler.
API_BASE == "https://tempobook.virtusproject.com/api"

\* f"{API_BASE}/...": the request q as implementation i addresses it.
Addressed(i, q) ==
    [q EXCEPT !.base = IF i = "agent" THEN module_globals.API_BASE
                       ELSE IF i = "lambda" THEN API_BASE
                       ELSE ""]

\* The module-level variables after import: API_BASE (agent.py, line 12),
\* _access_token (agent_old.py, line 13) and whether the environment gave
\* CLIENT_ID, CLIENT_SECRET and TOKEN_URL (agent_old.py, lines 9-11).
InitialGlobals ==
    [API_BASE |-> API_BASE, _access_token |-> "None", credentials |-> TRUE]

\* An invocation as its caller and the backend saw it: the arguments, the
\* requests and answers in order, and the value returned.
mkPrev(i, t, p, l, r) ==
    [impl |-> i, tool_name |-> t, params |-> p, log |-> l, result |-> r]

NoPrev == mkPrev("", "", NoParams, <<>>, NoResult)

\* The invocation sends its first request; next_pc awaits the answer.
Begin(i, t, p, first, next_pc, l) ==
    /\ pc = "idle"
    /\ pc' = next_pc
    /\ impl' = i
    /\ tool_name' = t
    /\ params' = p
    /\ log' = <<Addressed(i, first)>>
    /\ local' = l
    /\ result' = NoResult
    /\ UNCHANGED kept

\* The invocation returns r after the answer a to its last request.
Finish(a, r) ==
    /\ pc' = "done"
    /\ log' = Append(log, a)
    /\ result' = r
    /\ UNCHANGED <<impl, tool_name, params, local, kept>>

\* The invocation gets answer a and sends request q.
Continue(a, q, next_pc, l) ==
    /\ pc' = next_pc
    /\ log' = log \o <<a, Addressed(impl, q)>>
    /\ local' = l
    /\ UNCHANGED <<impl, tool_name, params, result, kept>>

\* [s for s in all_services if s['_id'] in service_id_list]
FilterServices(all_services, service_id_list) ==
    SelectSeq(all_services, LAMBDA s : s._id \in Range(service_id_list))

get_services_Start ==
    Begin("agent", "get_services", NoParams, ServicesRequest, "catalog", NoLocal)

get_services_Resp ==
    /\ pc = "catalog" /\ impl = "agent" /\ tool_name = "get_services"
    /\ \E st \in Statuses, priced \in BOOLEAN :
         IF st = "ok" /\ priced
         THEN Finish(mkResponse("/services", st, Catalog),
                     mkResult("value", "Available services:", Catalog))
         ELSE IF st = "ok"
         THEN Finish(mkResponse("/services", st, UnpricedCatalog),
                     mkResult("error", "Error fetching services: 'price'", <<>>))
         ELSE Finish(mkResponse("/services", st, <<>>),
                     mkResult("error", "Error fetching services: " \o ErrorText(st), <<>>))

get_establishments_by_services_Start ==
    \E sids \in ServiceIdLists :
        Begin("agent", "get_establishments_by_services",
              [NoParams EXCEPT !.service_ids = sids],
              EstablishmentsRequest(Join(sids)), "establishments", NoLocal)

\* The establishments the directory answers with.
EstablishmentLists == {<<>>, <<[_id |-> "E1", name |-> "Centro"]>>}

get_establishments_by_services_Resp ==
    /\ pc = "establishments" /\ impl = "agent"
    /\ \E st \in Statuses, ests \in EstablishmentLists :
         LET path == "/establishments/establishments-by-services" IN
         IF st = "ok"
         THEN Finish(mkResponse(path, st, ests),
                     IF ests = <<>>
                     THEN mkResult("value", "No establishments found offering these services.", <<>>)
                     ELSE mkResult("value", "Available establishments:", ests))
         ELSE /\ ests = <<>>
              /\ Finish(mkResponse(path, st, <<>>),
                        mkResult("error", "Error fetching establishments: " \o ErrorText(st), <<>>))

get_available_times_Start ==
    \E date \in IsoDates \cup CivilDates, sids \in ServiceIdLists, dur \in Durations :
        Begin("agent", "get_available_times",
              mkParams(date, "E1", sids, <<>>, "None", dur, NoCustomer),
              ServicesRequest, "catalog", NoLocal)

\* get_available_times if it rewrote the module-level API_BASE.
get_available_times_Catalog_Rebasing ==
    /\ pc = "catalog" /\ impl = "agent" /\ tool_name = "get_available_times"
    /\ \E st \in Statuses :
         IF st = "ok"
         THEN LET services_data == FilterServices(Catalog, params.service_ids)
                  rebased == module_globals.API_BASE \o "/v2"
                  q == AvailableTimeRequest("POST", RawDate(params.date),
                           params.establishment_id, params.total_duration,
                           services_data)
              IN
              /\ module_globals' = [module_globals EXCEPT !.API_BASE = rebased]
              /\ pc' = "avail"
              /\ log' = log \o <<mkResponse("/services", st, Catalog),
                                 [q EXCEPT !.base = rebased]>>
              /\ local' = [local EXCEPT !.services_selected = services_data]
              /\ UNCHANGED <<impl, tool_name, params, result, tz_in, tz_out, prev>>
         ELSE Finish(mkResponse("/services", st, <<>>),
                     mkResult("error", "Error fetching available times: " \o ErrorText(st), <<>>))

get_available_times_Catalog ==
    /\ pc = "catalog" /\ impl = "agent" /\ tool_name = "get_available_times"
    /\ \E st \in Statuses :
         IF st = "ok"
         THEN LET services_data == FilterServices(Catalog, params.service_ids) IN
              Continue(mkResponse("/services", st, Catalog),
                       AvailableTimeRequest("POST", RawDate(params.date),
                           params.establishment_id, params.total_duration,
                           services_data),
                       "avail",
                       [local EXCEPT !.services_selected = services_data])
         ELSE Finish(mkResponse("/services", st, <<>>),
                     mkResult("error", "Error fetching available times: " \o ErrorText(st), <<>>))

\* date.split('T')[0]
SplitT0(date) == strftime_Ymd(date)

get_available_times_Avail ==
    /\ pc = "avail" /\ impl = "agent" /\ tool_name = "get_available_times"
    /\ \E st \in Statuses, hs \in SlotLists,
          est \in SlotEstablishments(params.establishment_id) :
         IF st = "ok"
         THEN LET data == AgentSlots(hs, est) IN
              Finish(mkResponse("/bookings/availableTime", st, data),
                     IF data = <<>>
                     THEN mkResult("value", "No available time slots found for this date.", <<>>)
                     ELSE mkResult("value",
                              "Available times for " \o SplitT0(params.date) \o ":",
                              [i \in DOMAIN data |->
                                  "- " \o data[i].hour.startTime \o " - " \o data[i].hour.endTime]))
         ELSE /\ hs = <<>>
              /\ Finish(mkResponse("/bookings/availableTime", st, <<>>),
                        mkResult("error", "Error fetching available times: " \o ErrorText(st), <<>>))

\* customerInfo of the booking payload.
customerInfo(c) ==
    [email |-> c.email, name |-> c.name, lastName |-> c.lastName,
     phoneNumber |-> c.phoneNumber, phoneCode |-> c.phoneCode]

\* A matcher that falls back to the first slot when none starts at time.
selected_slot_or_first(available_slots, time) ==
    LET hits == {i \in DOMAIN available_slots :
                    available_slots[i].hour.startTime = time}
    IN  IF hits # {} THEN CHOOSE i \in hits : \A j \in hits : i <= j
        ELSE IF Len(available_slots) > 0 THEN 1 ELSE 0

\* The slot matcher of create_booking: the index of the first slot whose
\* hour.startTime equals time, 0 (None) when there is none.
selected_slot(available_slots, time) ==
    LET hits == {i \in DOMAIN available_slots :
                    available_slots[i].hour.startTime = time}
    IN  IF hits = {} THEN 0 ELSE CHOOSE i \in hits : \A j \in hits : i <= j

create_booking_Start ==
    \E date \in IsoDates \cup CivilDates, time \in Times,
       sids \in ServiceIdLists, dur \in Durations, cust \in Customers :
        Begin("agent", "create_booking",
              mkParams(date, "E1", sids, <<>>, time, dur, cust),
              ServicesRequest, "catalog", NoLocal)

\* A commit that writes the caller's time without asking for availability.
create_booking_Catalog_NoRecheck ==
    /\ pc = "catalog" /\ impl = "agent" /\ tool_name = "create_booking"
    /\ LET services_selected == FilterServices(Catalog, params.service_ids) IN
       Continue(mkResponse("/services", "ok", Catalog),
                BookingRequest(customerInfo(params.customer),
                    params.total_duration, services_selected,
                    [_id |-> params.establishment_id, name |-> "Centro"],
                    RawDate(params.date),
                    mkHour(params.time, params.time, <<>>)),
                "write",
                [local EXCEPT !.services_selected = services_selected])

create_booking_Catalog ==
    /\ pc = "catalog" /\ impl = "agent" /\ tool_name = "create_booking"
    /\ \E st \in Statuses :
         IF st = "ok"
         THEN LET services_selected == FilterServices(Catalog, params.service_ids) IN
              Continue(mkResponse("/services", st, Catalog),
                       AvailableTimeRequest("POST", RawDate(params.date),
                           params.establishment_id, params.total_duration,
                           services_selected),
                       "avail",
                       [local EXCEPT !.services_selected = services_selected])
         ELSE Finish(mkResponse("/services", st, <<>>),
                     mkResult("error", "Error creating booking: " \o ErrorText(st), <<>>))

create_booking_Avail ==
    /\ pc = "avail" /\ impl = "agent" /\ tool_name = "create_booking"
    /\ \E st \in Statuses, hs \in SlotLists,
          est \in SlotEstablishments(params.establishment_id) :
         LET path == "/bookings/availableTime"
             available_slots == AgentSlots(hs, est)
             k == selected_slot(available_slots, params.time)
         IN
         IF st # "ok"
         THEN /\ hs = <<>>
              /\ Finish(mkResponse(path, st, <<>>),
                        mkResult("error", "Error creating booking: " \o ErrorText(st), <<>>))
         ELSE IF k = 0
         THEN Finish(mkResponse(path, st, available_slots),
                     mkResult("value",
                         "Time slot " \o params.time
                             \o " is no longer available. Please choose another time.",
                         <<>>))
         ELSE IF "establishment" \notin DOMAIN available_slots[k]
         THEN Finish(mkResponse(path, st, available_slots),
                     mkResult("error", "Error creating booking: 'establishment'", <<>>))
         ELSE Continue(mkResponse(path, st, available_slots),
                       BookingRequest(customerInfo(params.customer),
                           params.total_duration, local.services_selected,
                           available_slots[k].establishment,
                           RawDate(params.date), available_slots[k].hour),
                       "write", local)

\* The bodies POST /bookings/ answers with: the confirmation, or another shape.
BookingBodies == {"booking", "other"}

create_booking_Write ==
    /\ pc = "write" /\ impl = "agent" /\ tool_name = "create_booking"
    /\ \E st \in Statuses, body \in BookingBodies :
         IF st # "ok"
         THEN /\ body = "other"
              /\ Finish(mkResponse("/bookings/", st, <<>>),
                        mkResult("error", "Error creating booking: " \o ErrorText(st), <<>>))
         ELSE IF body = "booking"
         THEN Finish(mkResponse("/bookings/", st, <<body>>),
                     mkResult("value", "Booking confirmed!", <<body>>))
         ELSE Finish(mkResponse("/bookings/", st, <<body>>),
                     mkResult("error", "Error creating booking: 'booking'", <<>>))

(***************************************************************************)
(* gateway_lambda_proxy.py: lambda_handler.                                *)
(***************************************************************************)
delimiter == "___"

RECURSIVE JoinParts(_)
\* A full tool name, given as its pieces between occurrences of the delimiter.
JoinParts(parts) ==
    IF Len(parts) = 1 THEN parts[1]
    ELSE parts[1] \o delimiter \o JoinParts(Tail(parts))

\* The full tool names the gateway passes in bedrockAgentCoreToolName.
FullToolNames ==
    {<<"gw", "getServices">>, <<"gw", "getEstablishmentsByServices">>,
     <<"gw", "getAvailableTimes">>, <<"gw", "createBooking">>,
     <<"gw", "bogus">>, <<"gw", "x", "getServices">>,
     <<"bogus">>, <<"createBooking">>}

\* original_tool_name.index(delimiter) finds the delimiter.
HasDelimiter(parts) == Len(parts) >= 2

\* original_tool_name[original_tool_name.index(delimiter) + len(delimiter):]
StripPrefix(parts) == JoinParts(Tail(parts))

KnownTools ==
    {"getServices", "getEstablishmentsByServices", "getAvailableTimes", "createBooking"}

\* The invocation ends before any request is sent.
Immediate(t, p, r) ==
    /\ pc = "idle"
    /\ pc' = "done"
    /\ impl' = "lambda"
    /\ tool_name' = t
    /\ params' = p
    /\ log' = <<>>
    /\ local' = NoLocal
    /\ result' = r
    /\ UNCHANGED kept

Named(parts, p) == [p EXCEPT !.original_tool_name = JoinParts(parts)]

\* Line 26 runs before the try: without the delimiter, str.index raises.
lambda_handler_NoDelimiter ==
    \E parts \in FullToolNames :
        /\ ~HasDelimiter(parts)
        /\ Immediate("", Named(parts, NoParams),
                     mkResult("raised", "substring not found", <<>>))

lambda_handler_Unknown ==
    \E parts \in FullToolNames :
        /\ HasDelimiter(parts)
        /\ StripPrefix(parts) \notin KnownTools
        /\ Immediate(StripPrefix(parts), Named(parts, NoParams),
                     mkResult("error", "Unknown tool: " \o StripPrefix(parts), <<>>))

lambda_getServices_Start ==
    \E parts \in FullToolNames :
        /\ HasDelimiter(parts)
        /\ StripPrefix(parts) = "getServices"
        /\ Begin("lambda", "getServices", Named(parts, NoParams), ServicesRequest,
                 "catalog", NoLocal)

lambda_getEstablishmentsByServices_Start ==
    \E parts \in FullToolNames, sids \in ServiceIdLists :
        /\ HasDelimiter(parts)
        /\ StripPrefix(parts) = "getEstablishmentsByServices"
        /\ Begin("lambda", "getEstablishmentsByServices",
                 Named(parts, [NoParams EXCEPT !.service_ids = sids]),
                 EstablishmentsRequest(Join(sids)), "establishments", NoLocal)

\* Lines 61-69: the date parameter of the availability request.
date_param(iso_date) ==
    IF iso_date.kind = "iso"
    THEN strftime_Ymd(astimezone(iso_date))
    ELSE RawDate(iso_date)

lambda_getAvailableTimes_Start ==
    \E parts \in FullToolNames, date \in IsoDates \cup CivilDates \cup BadDates \cup {NoDate},
       sids \in ServiceIdLists, dur \in Durations :
        LET p == Named(parts, mkParams(date, "E1", <<>>, sids, "None", dur, NoCustomer)) IN
        /\ HasDelimiter(parts)
        /\ StripPrefix(parts) = "getAvailableTimes"
        /\ IF date.kind = "iso" /\ ~fromisoformat_ok(date)
           THEN Immediate("getAvailableTimes", p,
                          mkResult("error", "day is out of range for month", <<>>))
           ELSE Begin("lambda", "getAvailableTimes", p,
                      AvailableTimeRequest("GET", date_param(date), "E1", dur, sids),
                      "avail", NoLocal)

\* The read tools return the backend's body, or the exception's text.
lambda_handler_ReadResp ==
    /\ pc \in {"catalog", "establishments", "avail"} /\ impl = "lambda"
    /\ tool_name # "createBooking"
    /\ \E st \in Statuses :
       \E body \in (IF st # "ok" THEN {<<>>}
                    ELSE IF pc = "catalog" THEN {Catalog}
                    ELSE IF pc = "establishments" THEN EstablishmentLists
                    ELSE SlotLists) :
         LET path == log[Len(log)].path IN
         IF st = "ok"
         THEN Finish(mkResponse(path, st, body), mkResult("value", "", body))
         ELSE Finish(mkResponse(path, st, <<>>),
                     mkResult("error", ErrorText(st), <<>>))

\* The zone of the process (TZ), which astimezone gives a datetime that
\* has none.
ProcessZones == {"UTC", "America/Guayaquil"}

\* Lines 102-104: the instant in the zone of the backend.  A string with a
\* time and 'Z' is a UTC instant; a bare date is 00:00 in the zone of the
\* process.
local_dt(iso_date, zone) ==
    IF iso_date.kind = "iso" \/ zone = "UTC" THEN astimezone(iso_date)
    ELSE [y |-> iso_date.y, mo |-> iso_date.mo, d |-> iso_date.d,
          h |-> iso_date.h, mi |-> iso_date.mi]

\* Line 108
date_str(iso_date, zone) == strftime_Ymd(local_dt(iso_date, zone))

\* Line 109
time_str(iso_date, zone) == strftime_HM(local_dt(iso_date, zone))

\* A matcher without the break: the last matching slot wins.
matching_hour_last(availableTime, wanted) ==
    LET hits == {i \in DOMAIN availableTime : availableTime[i].startTime = wanted}
    IN  IF hits = {} THEN 0 ELSE CHOOSE i \in hits : \A j \in hits : i >= j

\* Lines 126-136: the index of the first slot of availableTime whose
\* startTime equals the time_str wanted, 0 (None) when there is none.
matching_hour(availableTime, wanted) ==
    LET hits == {i \in DOMAIN availableTime : availableTime[i].startTime = wanted}
    IN  IF hits = {} THEN 0 ELSE CHOOSE i \in hits : \A j \in hits : i <= j

\* Lines 129-135: the hour of the payload, copied field by field from the slot.
HourOf(slot) ==
    [startTime |-> slot.startTime, endTime |-> slot.endTime, time |-> slot.time,
     duration |-> slot.duration, employees |-> slot.employees]

\* [s.get('_id', s.get('id')) for s in services_selected]
ServiceIds(services_selected) ==
    [i \in DOMAIN services_selected |-> services_selected[i]._id]

\* The service descriptors a caller passes as services_selected.
ServiceLists == {<<S1>>, <<S1, S2>>}

lambda_createBooking_Start ==
    \E parts \in FullToolNames,
       iso_date \in IsoDates \cup CivilDates \cup BadDates \cup {NoDate},
       zone \in ProcessZones,
       services_selected \in ServiceLists, dur \in Durations, cust \in Customers :
        LET p == Named(parts,
                       [mkParams(iso_date, "E1", <<>>, services_selected,
                                 "None", dur, cust)
                           EXCEPT !.establishment_name = "Centro"])
        IN
        /\ HasDelimiter(parts)
        /\ StripPrefix(parts) = "createBooking"
        /\ IF iso_date.kind = "none"
           THEN Immediate("createBooking", p,
                    mkResult("error",
                        "'NoneType' object has no attribute 'replace'", <<>>))
           ELSE IF ~fromisoformat_ok(iso_date)
           THEN Immediate("createBooking", p,
                    mkResult("error", "day is out of range for month", <<>>))
           ELSE Begin("lambda", "createBooking", p,
                      AvailableTimeRequest("GET", date_str(iso_date, zone), "E1",
                                           dur, ServiceIds(services_selected)),
                      "avail",
                      mkLocal(services_selected, date_str(iso_date, zone),
                              time_str(iso_date, zone), dur))

lambda_createBooking_Avail ==
    /\ pc = "avail" /\ impl = "lambda" /\ tool_name = "createBooking"
    /\ \E st \in Statuses :
       \E availableTime \in (IF st = "ok" THEN SlotLists ELSE {<<>>}) :
         LET path == "/bookings/availableTime"
             k == matching_hour(availableTime, local.time_str)
         IN
         IF st # "ok"
         THEN Finish(mkResponse(path, st, <<>>),
                     mkResult("error", ErrorText(st), <<>>))
         ELSE IF k = 0
         THEN Finish(mkResponse(path, st, availableTime),
                     mkResult("error",
                         "No available time slot found for " \o local.time_str, <<>>))
         ELSE Continue(mkResponse(path, st, availableTime),
                       BookingRequest(customerInfo(params.customer),
                           local.duration, local.services_selected,
                           [_id |-> params.establishment_id,
                            name |-> params.establishment_name],
                           local.date_str, HourOf(availableTime[k])),
                       "write", local)

\* A write that is sent again, once, when it fails.
lambda_createBooking_Write_Retry ==
    /\ pc = "write" /\ impl = "lambda" /\ tool_name = "createBooking"
    /\ \E st \in Statuses :
         IF st = "ok"
         THEN Finish(mkResponse("/bookings/", st, <<"booking">>),
                     mkResult("value", "", <<"booking">>))
         ELSE IF Len(log) <= 3
         THEN Continue(mkResponse("/bookings/", st, <<>>), log[Len(log)],
                       "write", local)
         ELSE Finish(mkResponse("/bookings/", st, <<>>),
                     mkResult("error", ErrorText(st), <<>>))

lambda_createBooking_Write ==
    /\ pc = "write" /\ impl = "lambda" /\ tool_name = "createBooking"
    /\ \E st \in Statuses :
         IF st = "ok"
         THEN Finish(mkResponse("/bookings/", st, <<"booking">>),
                     mkResult("value", "", <<"booking">>))
         ELSE Finish(mkResponse("/bookings/", st, <<>>),
                     mkResult("error", ErrorText(st), <<>>))

(***************************************************************************)
(* The timezone conversion alone, over a calendar of UTC instants: the two *)
(* places of lambda_handler that convert (lines 61-69 and 100-109).        *)
(***************************************************************************)
TzYears == {1992, 1993, 2024, 2025}

TzDays == {1, 2, 5, 15, 27, 28, 29, 30, 31}

TzMinutes == {0, 30}

TzInputs ==
    {mkDate("iso", y, mo, d, h, mi) :
        y \in TzYears, mo \in 1..12, d \in TzDays, h \in 0..23, mi \in TzMinutes}

mkTzOut(op, dp, ds, ts) ==
    [op |-> op, date_param |-> dp, date_str |-> ds, time_str |-> ts]

NoTzOut == mkTzOut("", "", "", "")

mainvars == <<pc, impl, tool_name, params, log, local, result, module_globals, prev>>

TzGetAvailableTimes ==
    /\ tz_out.op = ""
    /\ tz_out' = IF fromisoformat_ok(tz_in)
                 THEN mkTzOut("getAvailableTimes", date_param(tz_in), "", "")
                 ELSE mkTzOut("ValueError", "", "", "")
    /\ UNCHANGED <<tz_in, mainvars>>

TzCreateBooking ==
    /\ tz_out.op = ""
    /\ tz_out' = IF fromisoformat_ok(tz_in)
                 THEN mkTzOut("createBooking", "", date_str(tz_in, "UTC"),
                              time_str(tz_in, "UTC"))
                 ELSE mkTzOut("ValueError", "", "", "")
    /\ UNCHANGED <<tz_in, mainvars>>

InitTz ==
    /\ pc = "idle"
    /\ impl = ""
    /\ tool_name = ""
    /\ params = NoParams
    /\ log = <<>>
    /\ local = NoLocal
    /\ result = NoResult
    /\ tz_in \in TzInputs
    /\ tz_out = NoTzOut
    /\ module_globals = InitialGlobals
    /\ prev = NoPrev

NextTz == TzGetAvailableTimes \/ TzCreateBooking

SpecTz == InitTz /\ [][NextTz]_vars

(***************************************************************************)
(* agent_old.py: call_gateway_tool and get_access_token.                   *)
(***************************************************************************)
GatewayToolNames == {"getServices", "bogus"}

\* What the token endpoint and the gateway answer with.
TokenAnswers == {"access_token", "no_access_token", "transport_error"}

GatewayAnswers == {"result", "error", "bad_content", "transport_error"}

TokenRequest ==
    mkRequest("POST", "TOKEN_URL", "", NoEstablishment, 0, <<>>, NoHour, NoCustomer)

GatewayRequest(name) ==
    mkRequest("POST", "GATEWAY_URL", "", NoEstablishment, 0, <<name>>, NoHour,
              NoCustomer)

GatewayErrorText(name, text) == "Error calling gateway tool " \o name \o ": " \o text

\* Lines 29-45 and get_access_token up to its request: with a cached token
\* the gateway is called, without credentials ValueError is raised and
\* caught, otherwise the token is asked for.
call_gateway_tool_Start ==
    \E name \in GatewayToolNames :
        LET p == [NoParams EXCEPT !.original_tool_name = name] IN
        IF module_globals._access_token # "None"
        THEN Begin("agent_old", "call_gateway_tool", p, GatewayRequest(name),
                   "gateway", NoLocal)
        ELSE IF ~module_globals.credentials
        THEN /\ pc = "idle"
             /\ pc' = "done"
             /\ impl' = "agent_old"
             /\ tool_name' = "call_gateway_tool"
             /\ params' = p
             /\ log' = <<>>
             /\ local' = NoLocal
             /\ result' = mkResult("error",
                    GatewayErrorText(name,
                        "Missing gateway credentials: GATEWAY_CLIENT_ID, "
                        \o "GATEWAY_CLIENT_SECRET, GATEWAY_TOKEN_URL"), <<>>)
             /\ UNCHANGED kept
        ELSE Begin("agent_old", "call_gateway_tool", p, TokenRequest, "token",
                   NoLocal)

\* Lines 25-27 and 45: the token is kept in _access_token.
call_gateway_tool_Token ==
    /\ pc = "token" /\ impl = "agent_old"
    /\ \E ans \in TokenAnswers :
         LET name == params.original_tool_name IN
         IF ans = "access_token"
         THEN /\ module_globals' = [module_globals EXCEPT !._access_token = "tok"]
              /\ pc' = "gateway"
              /\ log' = log \o <<mkResponse("TOKEN_URL", "ok", <<ans>>),
                                 GatewayRequest(name)>>
              /\ UNCHANGED <<impl, tool_name, params, local, result, tz_in,
                             tz_out, prev>>
         ELSE Finish(mkResponse("TOKEN_URL",
                         IF ans = "transport_error" THEN ans ELSE "ok", <<>>),
                     mkResult("error",
                         GatewayErrorText(name,
                             IF ans = "transport_error" THEN "ConnectionError"
                             ELSE "'access_token'"), <<>>))

\* Lines 46-52
call_gateway_tool_Gateway ==
    /\ pc = "gateway" /\ impl = "agent_old"
    /\ \E ans \in GatewayAnswers :
         LET name == params.original_tool_name
             a == mkResponse("GATEWAY_URL",
                      IF ans = "transport_error" THEN ans ELSE "ok", <<ans>>)
         IN
         IF ans = "result"
         THEN Finish(a, mkResult("value", "text", <<ans>>))
         ELSE IF ans = "error"
         THEN Finish(a, mkResult("error", "Error: Unknown error", <<>>))
         ELSE Finish(a, mkResult("error",
                  GatewayErrorText(name,
                      IF ans = "transport_error" THEN "ConnectionError"
                      ELSE "list index out of range"), <<>>))

\* The caller has the result; the next invocation starts from nothing.
Return ==
    /\ pc = "done"
    /\ pc' = "idle"
    /\ impl' = ""
    /\ tool_name' = ""
    /\ params' = NoParams
    /\ log' = <<>>
    /\ local' = NoLocal
    /\ result' = NoResult
    /\ UNCHANGED kept

Init ==
    /\ pc = "idle"
    /\ impl = ""
    /\ tool_name = ""
    /\ params = NoParams
    /\ log = <<>>
    /\ local = NoLocal
    /\ result = NoResult
    /\ tz_in = NoDate
    /\ tz_out = NoTzOut
    /\ module_globals = InitialGlobals
    /\ prev = NoPrev

Next ==
    \/ get_services_Start
    \/ get_services_Resp
    \/ get_establishments_by_services_Start
    \/ get_establishments_by_services_Resp
    \/ get_available_times_Start
    \/ get_available_times_Catalog
    \/ get_available_times_Avail
    \/ create_booking_Start
    \/ create_booking_Catalog
    \/ create_booking_Avail
    \/ create_booking_Write
    \/ lambda_handler_NoDelimiter
    \/ lambda_handler_Unknown
    \/ lambda_getServices_Start
    \/ lambda_getEstablishmentsByServices_Start
    \/ lambda_getAvailableTimes_Start
    \/ lambda_handler_ReadResp
    \/ lambda_createBooking_Start
    \/ lambda_createBooking_Avail
    \/ lambda_createBooking_Write
    \/ Return

Spec == Init /\ [][Next]_vars

\* call_gateway_tool alone, in a process with or without the credentials.
InitGateway ==
    /\ pc = "idle"
    /\ impl = ""
    /\ tool_name = ""
    /\ params = NoParams
    /\ log = <<>>
    /\ local = NoLocal
    /\ result = NoResult
    /\ tz_in = NoDate
    /\ tz_out = NoTzOut
    /\ \E c \in BOOLEAN : module_globals = [InitialGlobals EXCEPT !.credentials = c]
    /\ prev = NoPrev

NextGateway ==
    \/ call_gateway_tool_Start
    \/ call_gateway_tool_Token
    \/ call_gateway_tool_Gateway
    \/ Return

SpecGateway == InitGateway /\ [][NextGateway]_vars

(***************************************************************************)
(* A read operation run twice.  After earlier invocations, one invocation  *)
(* of a read operation is remembered in prev when it returns; the process  *)
(* then runs the same operation with the same arguments, and the backend,  *)
(* being unchanged, gives a request it has answered before the answer it   *)
(* gave.  The earlier invocations are the read operations, the calls       *)
(* through the gateway, which leave the token behind, and the rejected     *)
(* calls; the booking operations are those of Spec, where every invocation *)
(* leaves the module-level state as it found it (GlobalsNeverChange).      *)
(***************************************************************************)
ReadTools ==
    {"get_services", "get_establishments_by_services", "get_available_times",
     "getServices", "getEstablishmentsByServices", "getAvailableTimes"}

SameCall ==
    /\ impl = prev.impl
    /\ tool_name = prev.tool_name
    /\ params = prev.params

UnchangedBackend ==
    \A k \in 2..Len(log) :
        (/\ log[k].ev = "response"
         /\ k <= Len(prev.log)
         /\ log[k - 1] = prev.log[k - 1]) => log[k] = prev.log[k]

Replay == prev # NoPrev => (SameCall /\ UnchangedBackend)

\* Tool t may be called: any tool at first, the remembered one afterwards.
Callable(t) == prev = NoPrev \/ prev.tool_name = t

\* The first of the two runs returns.
Return_Record ==
    /\ pc = "done"
    /\ prev = NoPrev
    /\ tool_name \in ReadTools
    /\ prev' = mkPrev(impl, tool_name, params, log, result)
    /\ pc' = "idle"
    /\ impl' = ""
    /\ tool_name' = ""
    /\ params' = NoParams
    /\ log' = <<>>
    /\ local' = NoLocal
    /\ result' = NoResult
    /\ UNCHANGED <<tz_in, tz_out, module_globals>>

\* The second run returns.
Return_Forget ==
    /\ pc = "done"
    /\ prev # NoPrev
    /\ prev' = NoPrev
    /\ pc' = "idle"
    /\ impl' = ""
    /\ tool_name' = ""
    /\ params' = NoParams
    /\ log' = <<>>
    /\ local' = NoLocal
    /\ result' = NoResult
    /\ UNCHANGED <<tz_in, tz_out, module_globals>>

InitRead ==
    /\ pc = "idle"
    /\ impl = ""
    /\ tool_name = ""
    /\ params = NoParams
    /\ log = <<>>
    /\ local = NoLocal
    /\ result = NoResult
    /\ tz_in = NoDate
    /\ tz_out = NoTzOut
    /\ module_globals = InitialGlobals
    /\ prev = NoPrev

NextRead ==
    \/ Callable("get_services") /\ get_services_Start /\ Replay'
    \/ get_services_Resp /\ Replay'
    \/ Callable("get_establishments_by_services") /\ get_establishments_by_services_Start /\ Replay'
    \/ get_establishments_by_services_Resp /\ Replay'
    \/ Callable("get_available_times") /\ get_available_times_Start /\ Replay'
    \/ get_available_times_Catalog /\ Replay'
    \/ get_available_times_Avail /\ Replay'
    \/ prev = NoPrev /\ lambda_handler_NoDelimiter /\ Replay'
    \/ prev = NoPrev /\ lambda_handler_Unknown /\ Replay'
    \/ Callable("getServices") /\ lambda_getServices_Start /\ Replay'
    \/ Callable("getEstablishmentsByServices") /\ lambda_getEstablishmentsByServices_Start /\ Replay'
    \/ Callable("getAvailableTimes") /\ lambda_getAvailableTimes_Start /\ Replay'
    \/ lambda_handler_ReadResp /\ Replay'
    \/ prev = NoPrev /\ call_gateway_tool_Start /\ Replay'
    \/ call_gateway_tool_Token /\ Replay'
    \/ call_gateway_tool_Gateway /\ Replay'
    \/ Return /\ Replay'
    \/ Return_Record
    \/ Return_Forget

SpecRead == InitRead /\ [][NextRead]_vars

(***************************************************************************)
(* Properties.                                                             *)
(***************************************************************************)

\* The day before a civil date, by the calendar's month lengths.
PrevDay(dt) ==
    IF dt.d > 1 THEN [dt EXCEPT !.d = dt.d - 1]
    ELSE IF dt.mo > 1
    THEN [dt EXCEPT !.mo = dt.mo - 1, !.d = DaysInMonth(dt.y, dt.mo - 1)]
    ELSE [dt EXCEPT !.y = dt.y - 1, !.mo = 12, !.d = 31]

\* The civil date and time of a UTC instant under a fixed offset of -5 hours.
MinusFiveHours(dt) ==
    IF dt.h < 5 THEN [PrevDay(dt) EXCEPT !.h = dt.h + 19]
    ELSE [dt EXCEPT !.h = dt.h - 5]

NormalizedAsFixedOffset ==
    /\ tz_out.op = "getAvailableTimes" =>
           tz_out.date_param = strftime_Ymd(MinusFiveHours(tz_in))
    /\ tz_out.op = "createBooking" =>
           /\ tz_out.date_str = strftime_Ymd(MinusFiveHours(tz_in))
           /\ tz_out.time_str = strftime_HM(MinusFiveHours(tz_in))

\* C5: for every UTC instant the normalization yields the civil date and
\* time of the instant minus five hours (day D-1 before 05:00Z, day D from
\* 05:00Z on), across month and year boundaries.
C5_FixedOffsetEverywhere == NormalizedAsFixedOffset

\* Outside the daylight saving period of America/Guayaquil, before
\* 1992-11-28T05:00Z and from 1993-02-05T04:00Z on, the normalization yields
\* the civil date and time of the instant minus five hours.
FixedOffsetOutsideDst ==
    (/\ fromisoformat_ok(tz_in)
     /\ \/ ToMinutes(tz_in) < ToMinutes(DstStart)
        \/ ToMinutes(tz_in) >= ToMinutes(DstEnd))
        => NormalizedAsFixedOffset

(***************************************************************************)
(* The booking commit: create_booking (agent.py) and the createBooking     *)
(* branch of lambda_handler.                                               *)
(***************************************************************************)
IsCommit == tool_name \in {"create_booking", "createBooking"}

IsWrite(e) == e.ev = "request" /\ e.path = "/bookings/"

IsAvailRequest(e) == e.ev = "request" /\ e.path = "/bookings/availableTime"

IsAvailAnswer(e) ==
    e.ev = "response" /\ e.path = "/bookings/availableTime" /\ e.status = "ok"

Writes == {i \in DOMAIN log : IsWrite(log[i])}

\* The start time the caller wants: the time argument of create_booking,
\* the local time of isoDate for createBooking (of a bare date, the time the
\* handler made of it).
Desired ==
    IF impl = "agent" THEN params.time
    ELSE IF params.date.kind = "iso" THEN strftime_HM(MinusFiveHours(params.date))
    ELSE local.time_str

\* The start time and the hour of a slot of an availability answer.
StartOf(slot) == IF impl = "agent" THEN slot.hour.startTime ELSE slot.startTime

HourIn(slot) == IF impl = "agent" THEN slot.hour ELSE slot

\* The identifiers of the services of a request.
IdsIn(e) ==
    IF impl = "lambda" /\ IsAvailRequest(e) THEN e.services
    ELSE [i \in DOMAIN e.services |-> e.services[i]._id]

\* C1: a POST to /bookings/ is sent only after an availability request for
\* the establishment, the date and the services of the commit was sent and
\* answered in the same invocation.
C1_RecheckBeforeWrite ==
    \A i \in Writes :
        \E j \in 1..(i - 1), k \in 1..(i - 1) :
            /\ j < k
            /\ IsAvailRequest(log[j])
            /\ IsAvailAnswer(log[k])
            /\ log[j].establishment._id = params.establishment_id
            /\ log[j].date = log[i].date
            /\ IdsIn(log[j]) = IdsIn(log[i])

C1_Witness ==
    /\ pc = "done" /\ impl = "agent" /\ tool_name = "create_booking"
    /\ Writes # {}
    /\ result.msg = "Booking confirmed!"

\* lambda_handler writes the establishment the re-check asked about.
LambdaWritesAskedEstablishment ==
    \A i \in Writes :
        impl = "lambda" => log[i].establishment._id = params.establishment_id

\* create_booking writes the establishment of the matched slot of the answer.
AgentWritesAnswerEstablishment ==
    \A i \in Writes :
        impl = "agent" =>
            \E n \in DOMAIN log[i - 1].body :
                /\ "establishment" \in DOMAIN log[i - 1].body[n]
                /\ log[i].establishment = log[i - 1].body[n].establishment

\* C2: when no slot of the fresh availability answer starts at the desired
\* time (the empty answer included), the commit returns the slot-unavailable
\* outcome and POST /bookings/ is never sent in that invocation.
UnavailableText ==
    IF impl = "agent"
    THEN "Time slot " \o params.time
             \o " is no longer available. Please choose another time."
    ELSE "No available time slot found for " \o Desired

C2_NoMatchNoWrite ==
    \A k \in DOMAIN log :
        (/\ IsCommit
         /\ IsAvailAnswer(log[k])
         /\ \A n \in DOMAIN log[k].body : StartOf(log[k].body[n]) # Desired)
        => /\ pc = "done"
           /\ result.msg = UnavailableText
           /\ Writes = {}

C2_Witness ==
    /\ pc = "done" /\ impl = "lambda" /\ tool_name = "createBooking"
    /\ \E k \in DOMAIN log : IsAvailAnswer(log[k]) /\ Len(log[k].body) = MaxSlots
    /\ result.msg = "No available time slot found for 20:00"
    /\ Writes = {}

\* C3: the slot of the write payload is the first slot, in the backend's
\* order, of the availability answer received just before whose start time
\* equals the desired start time.
C3_WriteCarriesFirstFreshMatch ==
    \A i \in Writes :
        /\ i > 1
        /\ IsAvailAnswer(log[i - 1])
        /\ \E n \in DOMAIN log[i - 1].body :
              /\ StartOf(log[i - 1].body[n]) = Desired
              /\ \A m \in 1..(n - 1) : StartOf(log[i - 1].body[m]) # Desired
              /\ log[i].hour = HourIn(log[i - 1].body[n])

\* Two slots start at 10:30; the payload carries the first one's employees.
C3_Witness ==
    /\ impl = "lambda" /\ pc = "write"
    /\ \E i \in Writes :
          /\ Len(log[i - 1].body) = 2
          /\ log[i - 1].body[1].startTime = "10:30"
          /\ log[i - 1].body[2].startTime = "10:30"
          /\ log[i - 1].body[1].employees # log[i - 1].body[2].employees
          /\ log[i].hour.employees = log[i - 1].body[1].employees

\* C4: POST /bookings/ is sent at most once per invocation; when it fails
\* the invocation returns an error and sends nothing more.
C4_WriteAtMostOnce ==
    /\ Cardinality(Writes) <= 1
    /\ \A k \in DOMAIN log :
          (/\ log[k].ev = "response" /\ log[k].path = "/bookings/"
           /\ log[k].status # "ok")
          => /\ pc = "done"
             /\ result.kind = "error"
             /\ k = Len(log)

C4_Witness ==
    /\ pc = "done" /\ impl = "agent"
    /\ Cardinality(Writes) = 1
    /\ log[Len(log)].path = "/bookings/"
    /\ log[Len(log)].status = "transport_error"
    /\ result.kind = "error"


(***************************************************************************)
(* Dates, durations, services, customer data and tool names.               *)
(***************************************************************************)

\* The civil date of the caller's date in the backend's zone.
ExpectedCivilDate ==
    IF params.date.kind = "iso" THEN strftime_Ymd(MinusFiveHours(params.date))
    ELSE RawDate(params.date)

\* C6: every availability request, of the availability tool and of the
\* re-check of the commit, carries the civil date of the caller's date, never
\* the caller's raw UTC timestamp, and the write carries the re-check's date.
C6_AvailabilityDateIsCivil ==
    /\ \A i \in DOMAIN log :
          IsAvailRequest(log[i]) =>
              /\ log[i].date = ExpectedCivilDate
              /\ params.date.kind = "iso" => log[i].date # RawDate(params.date)
    /\ \A i \in Writes :
          \E j \in 1..(i - 1) :
              IsAvailRequest(log[j]) /\ log[j].date = log[i].date

\* The same, of lambda_handler alone, when the caller's date is a UTC
\* timestamp.  (Of a bare date the createBooking branch makes 00:00 in the
\* zone of the process, and the date sent depends on that zone.)
LambdaDateIsCivil ==
    (impl = "lambda" /\ params.date.kind = "iso") => C6_AvailabilityDateIsCivil

RECURSIVE SumDurations(_)
SumDurations(services) ==
    IF services = <<>> THEN 0
    ELSE services[1].duration + SumDurations(Tail(services))

\* The service identifiers the caller asks for.
RequestedIds ==
    IF impl = "agent" THEN params.service_ids
    ELSE IF tool_name = "createBooking" THEN ServiceIds(params.services)
    ELSE params.services

\* C7: the duration of every availability request and of every write is the
\* sum of the durations of the services resolved from the catalog for the
\* requested identifiers.
C7_DurationIsSumOfServices ==
    \A i \in DOMAIN log :
        (IsAvailRequest(log[i]) \/ IsWrite(log[i])) =>
            log[i].duration = SumDurations(FilterServices(Catalog, RequestedIds))

CatalogIds == {Catalog[i]._id : i \in DOMAIN Catalog}

\* C8: when a requested identifier is absent from the fetched catalog, the
\* tool returns an error and calls neither the availability endpoint nor the
\* write endpoint.
C8_AbsentServiceStops ==
    (/\ impl = "agent"
     /\ tool_name \in {"get_available_times", "create_booking"}
     /\ \E k \in DOMAIN log :
           log[k].ev = "response" /\ log[k].path = "/services" /\ log[k].status = "ok"
     /\ \E id \in Range(params.service_ids) : id \notin CatalogIds)
    => /\ pc = "done"
       /\ result.kind = "error"
       /\ \A i \in DOMAIN log : ~IsAvailRequest(log[i]) /\ ~IsWrite(log[i])

Populated(c) ==
    \A f \in {"name", "lastName", "email", "phoneNumber", "phoneCode"} :
        c[f] \notin {"None", ""}

\* C9: a commit whose customer record is not fully populated is rejected and
\* sends no availability or write request.
C9_CommitNeedsFullCustomer ==
    (IsCommit /\ ~Populated(params.customer)) =>
        \A i \in DOMAIN log : ~IsAvailRequest(log[i]) /\ ~IsWrite(log[i])

\* The tool a full name designates: what follows the delimiter, or the whole
\* name when it has none.
DesignatedTool(parts) == IF HasDelimiter(parts) THEN StripPrefix(parts) ELSE parts[1]

UnknownFullNames ==
    {JoinParts(parts) : parts \in {q \in FullToolNames : DesignatedTool(q) \notin KnownTools}}

\* C10: for every full tool name that designates none of the four tools, with
\* or without the delimiter, lambda_handler returns the 'Unknown tool' error
\* and sends no request.
C10_UnknownToolIsAnError ==
    (/\ pc = "done" /\ impl = "lambda"
     /\ params.original_tool_name \in UnknownFullNames)
    => /\ result.kind = "error"
       /\ \E parts \in FullToolNames :
             /\ JoinParts(parts) = params.original_tool_name
             /\ result.msg = "Unknown tool: " \o DesignatedTool(parts)
       /\ log = <<>>

\* The same, of the names that hold the delimiter.
UnknownToolWithDelimiter ==
    (/\ pc = "done" /\ impl = "lambda"
     /\ params.original_tool_name \in
            {JoinParts(parts) : parts \in {q \in FullToolNames : HasDelimiter(q)}})
    => C10_UnknownToolIsAnError


(***************************************************************************)
(* Failures and state between invocations.                                 *)
(***************************************************************************)

\* C11: every failure of a tool invocation is returned as an error value;
\* no invocation of the agent tools, of lambda_handler or of
\* call_gateway_tool ends with an uncaught exception.
C11_NoUncaughtException == result.kind # "raised"

\* The same, of the tools of agent.py and of call_gateway_tool alone.
WrappedToolsNeverRaise ==
    impl \in {"agent", "agent_old"} => result.kind # "raised"

\* The same, of lambda_handler once the tool name is split.
LambdaNeverRaisesInsideTry ==
    (impl = "lambda" /\ tool_name # "") => result.kind # "raised"


\* The second run, as far as it has come, has sent what the first run sent,
\* and when it returns it has the log and the result of the first run.
SecondRunIsTheFirst ==
    prev # NoPrev =>
        /\ \A k \in 1..Len(log) :
               log[k].ev = "request" => (k <= Len(prev.log) /\ log[k] = prev.log[k])
        /\ pc = "done" => (log = prev.log /\ result = prev.result)

\* A step of a read operation changes no module-level variable.
ReadsLeaveGlobalsAlone ==
    [][tool_name' \in ReadTools => module_globals' = module_globals]_vars

\* C12: a read operation run a second time with the same arguments against
\* an unchanged backend, after earlier invocations, sends the requests the
\* first run sent and returns what the first run returned, and a read
\* operation leaves the module-level state as it found it, so that nothing
\* of it reaches a later invocation.
C12_ReadsHoldNoState == []SecondRunIsTheFirst /\ ReadsLeaveGlobalsAlone

\* Under Spec no invocation, the booking operations included, changes a
\* module-level variable.
GlobalsNeverChange == module_globals = InitialGlobals

\* The availability operation of agent.py has answered a second time with
\* slots, after a call through the gateway left its token behind.
C12_Witness ==
    /\ prev # NoPrev
    /\ pc = "done"
    /\ impl = "agent"
    /\ tool_name = "get_available_times"
    /\ Len(log) = 4
    /\ result.kind = "value"
    /\ Len(result.body) > 0
    /\ module_globals._access_token # "None"

====
